---------------------------- MODULE Spec2Model ----------------------------
(***************************************************************************)
(* A model of gemcode.py: the Lexer (tokenize and its scanners), the       *)
(* recursive-descent Parser (as a machine with an explicit call stack, one *)
(* step per token inspection) and the CodeGenerator (one step per visited  *)
(* statement).  Text is a sequence of one-character strings; a token is    *)
(* the pair <<kind, value>> of the source.                                 *)
(***************************************************************************)
EXTENDS Integers, Sequences, FiniteSets

VARIABLES
    \* Lexer
    source_code,      \* Lexer.source_code
    lexer_position,   \* Lexer.position (0-based)
    current_char,     \* Lexer.current_char (None at the end of the input)
    lexer_tokens,     \* the local list `tokens` of Lexer.tokenize
    starts,           \* history: the position at which each token was begun
    lex_pc,           \* "tokenize" | "returned" | "raised" | "idle"
    lex_result,       \* what tokenize returned (Absent until it returns)
    lex_error,        \* the exception tokenize raised (Absent if none)
    \* Parser
    tokens,           \* Parser.tokens
    parser_position,  \* Parser.position (0-based)
    current_token,    \* Parser.current_token (NoToken past the end)
    stack,            \* the call stack of the recursive descent
    parse_pc,         \* "running" | "returned" | "raised" | "idle"
    ast,              \* what parse returned (Absent until it returns)
    parse_error,      \* the exception parse raised (Absent if none)
    \* CodeGenerator
    output,           \* CodeGenerator.output (a list of lines)
    indent_level,     \* CodeGenerator.indent_level
    gen_stack,        \* the visit_Program / visit_Block activations
    gen_pc,           \* "idle" | "running" | "returned"
    target_code       \* what generate returned (Absent until it returns)

lexer_vars  == <<source_code, lexer_position, current_char, lexer_tokens,
                 starts, lex_pc, lex_result, lex_error>>
parser_vars == <<tokens, parser_position, current_token, stack, parse_pc,
                 ast, parse_error>>
gen_vars    == <<output, indent_level, gen_stack, gen_pc, target_code>>
vars        == <<lexer_vars, parser_vars, gen_vars>>

(***************************************************************************)
(* Bounds of the model.                                                    *)
(***************************************************************************)
MaxSrcLen == 3        \* the longest source text given to the lexer
MaxTokens == 3        \* the longest arbitrary token list given to the parser
MaxOps == 3           \* the most operators in a flat expression
MaxItems == 5         \* the most statements and braces in an arrangement
MaxParenTokens == 4   \* the longest right-hand side with parentheses
MaxDepth == 40        \* the deepest call stack the model follows

(***************************************************************************)
(* Values.                                                                 *)
(***************************************************************************)
None    == "None"   \* Python's None where a character or a payload may stand
NoToken == <<>>     \* Python's None where a token may stand
Absent  == <<>>     \* nothing returned, nothing raised
Some(v) == <<v>>    \* the value v returned

\* str.isspace, str.isalpha, str.isdigit over the characters of the model
Space   == {" ", "\n"}
Letters == {"i", "f"}
Digits  == {"0", "1"}
Alphabet ==
    Space \cup Letters \cup Digits \cup
    {"_", ".", "\"", "+", "-", "*", "/", "=", ";", "(", ")", "{", "}", "@"}

isspace(c) == c \in Space
isalpha(c) == c \in Letters
\* A slip in the digit test: a number may start with its decimal point.
isdigit_or_dot(c) == c \in Digits \cup {"."}
isdigit(c) == c \in Digits

keywords ==
    { <<"p","r","i","n","t">>, <<"i","f">>, <<"e","l","s","e">>,
      <<"w","h","i","l","e">>, <<"f","o","r">>, <<"r","e","t","u","r","n">>,
      <<"i","n","t">>, <<"f","l","o","a","t">>, <<"s","t","r","i","n","g">> }

(***************************************************************************)
(* Lexer                                                                   *)
(***************************************************************************)
\* The character Lexer.advance leaves in current_char at position p.
CharAt(src, p) == IF p < Len(src) THEN src[p + 1] ELSE None

\* The position at which a `while self.current_char and <c in S>: advance()`
\* loop started at p stops.
RECURSIVE ScanEnd(_, _, _)
ScanEnd(src, p, S) ==
    IF p < Len(src) /\ src[p + 1] \in S THEN ScanEnd(src, p + 1, S) ELSE p

skip_whitespace(src, p) == ScanEnd(src, p, Space)

get_identifier(src, p) ==
    LET q      == ScanEnd(src, p, Letters \cup Digits \cup {"_"})
        result == SubSeq(src, p + 1, q)
    IN  [ tok |-> IF result \in keywords THEN <<"KEYWORD", result>>
                                         ELSE <<"IDENTIFIER", result>>,
          pos |-> q ]

DigitVal(c) == IF c = "0" THEN 0 ELSE 1

\* int(result) for a run of digits.
RECURSIVE int(_)
int(ds) ==
    IF ds = <<>> THEN 0
    ELSE 10 * int(SubSeq(ds, 1, Len(ds) - 1)) + DigitVal(ds[Len(ds)])

RECURSIVE StripZeros(_)
StripZeros(ds) ==
    IF ds # <<>> /\ ds[Len(ds)] = "0" THEN StripZeros(SubSeq(ds, 1, Len(ds) - 1))
    ELSE ds

Dots(result) == {k \in 1..Len(result) : result[k] = "."}

\* float(result) for a digit-started run of digits and dots: a value when
\* the run holds one dot, ValueError when it holds several.
float(result) ==
    IF Cardinality(Dots(result)) = 1
    THEN LET d == CHOOSE k \in Dots(result) : TRUE
         IN  [ raised |-> FALSE,
               value  |-> [ int  |-> int(SubSeq(result, 1, d - 1)),
                            frac |-> StripZeros(SubSeq(result, d + 1, Len(result))) ] ]
    ELSE [ raised |-> TRUE, value |-> None ]

get_number(src, p) ==
    LET q      == ScanEnd(src, p, Digits \cup {"."})
        result == SubSeq(src, p + 1, q)
    IN  IF Dots(result) # {}
        THEN [ raised |-> float(result).raised,
               tok    |-> <<"FLOAT", float(result).value>>,
               text   |-> result,
               pos    |-> q ]
        ELSE [ raised |-> FALSE,
               tok    |-> <<"INTEGER", int(result)>>,
               text   |-> result,
               pos    |-> q ]

get_string(src, p) ==
    LET q      == ScanEnd(src, p + 1, Alphabet \ {"\""})
        result == SubSeq(src, p + 2, q)
    IN  [ tok |-> <<"STRING", result>>,
          pos |-> IF CharAt(src, q) = "\"" THEN q + 1 ELSE q ]

\* The characters of the four arithmetic branches of tokenize.
OperatorChars == {"+", "-", "*", "/"}

\* The single-character punctuation branches of tokenize.
PunctKind(c) ==
    CASE c = ";" -> "SEMICOLON"
      [] c = "(" -> "LPAREN"
      [] c = ")" -> "RPAREN"
      [] c = "{" -> "LBRACE"
      [] c = "}" -> "RBRACE"
PunctChars == {";", "(", ")", "{", "}"}

\* The token that ends every returned list.
EOFToken == <<"EOF", None>>

\* `tokens.append(tok)` at position p, then the scanner leaves the lexer at q.
Emit(tok, q) ==
    /\ lexer_tokens' = Append(lexer_tokens, tok)
    /\ starts' = Append(starts, lexer_position)
    /\ lexer_position' = q
    /\ current_char' = CharAt(source_code, q)
    /\ UNCHANGED <<source_code, lex_pc, lex_result, lex_error>>
    /\ UNCHANGED <<parser_vars, gen_vars>>

\* `raise e` out of tokenize: nothing is returned.
LexRaise(e) ==
    /\ lex_pc' = "raised"
    /\ lex_error' = e
    /\ UNCHANGED <<source_code, lexer_position, current_char, lexer_tokens,
                   starts, lex_result>>
    /\ UNCHANGED <<parser_vars, gen_vars>>

AtTokenStart == lex_pc = "tokenize" /\ current_char # None

LexWhitespace ==
    /\ AtTokenStart /\ isspace(current_char)
    /\ lexer_position' = skip_whitespace(source_code, lexer_position)
    /\ current_char' = CharAt(source_code, lexer_position')
    /\ UNCHANGED <<source_code, lexer_tokens, starts, lex_pc, lex_result, lex_error>>
    /\ UNCHANGED <<parser_vars, gen_vars>>

LexIdentifier ==
    /\ AtTokenStart /\ ~isspace(current_char)
    /\ isalpha(current_char) \/ current_char = "_"
    /\ LET r == get_identifier(source_code, lexer_position)
       IN  Emit(r.tok, r.pos)

LexNumber ==
    /\ AtTokenStart /\ isdigit(current_char)
    /\ LET r == get_number(source_code, lexer_position)
       IN  IF r.raised
           THEN LexRaise(<<"ValueError", "could not convert string to float", r.text>>)
           ELSE Emit(r.tok, r.pos)

LexString ==
    /\ AtTokenStart /\ current_char = "\""
    /\ LET r == get_string(source_code, lexer_position)
       IN  Emit(r.tok, r.pos)

LexOperator ==
    /\ AtTokenStart /\ current_char \in OperatorChars
    /\ Emit(<<"OPERATOR", <<current_char>>>>, lexer_position + 1)

LexAssign ==
    /\ AtTokenStart /\ current_char = "="
    /\ IF CharAt(source_code, lexer_position + 1) = "="
       THEN Emit(<<"OPERATOR", <<"=", "=">>>>, lexer_position + 2)
       ELSE Emit(<<"ASSIGN", <<"=">>>>, lexer_position + 1)

LexPunct ==
    /\ AtTokenStart /\ current_char \in PunctChars
    /\ Emit(<<PunctKind(current_char), <<current_char>>>>, lexer_position + 1)

LexUnrecognized ==
    /\ AtTokenStart
    /\ ~isspace(current_char)
    /\ ~(isalpha(current_char) \/ current_char = "_")
    /\ ~isdigit(current_char)
    /\ current_char # "\""
    /\ current_char \notin OperatorChars
    /\ current_char # "="
    /\ current_char \notin PunctChars
    /\ LexRaise(<<"ValueError", "Unrecognized character: ", current_char>>)

\* A slip at the end of tokenize: the list is returned as it stands.
EndOfInputForgotten(toks) == toks
\* `tokens.append(('EOF', None))` once the loop is left.
EndOfInput(toks) == Append(toks, EOFToken)

\* The input is exhausted: append EOF and return the list.
LexReturn ==
    /\ lex_pc = "tokenize" /\ current_char = None
    /\ lexer_tokens' = EndOfInput(lexer_tokens)
    /\ starts' = Append(starts, lexer_position)
    /\ lex_result' = Some(lexer_tokens')
    /\ lex_pc' = "returned"
    /\ UNCHANGED <<source_code, lexer_position, current_char, lex_error>>
    /\ UNCHANGED <<parser_vars, gen_vars>>

tokenize ==
    \/ LexWhitespace
    \/ LexIdentifier
    \/ LexNumber
    \/ LexString
    \/ LexOperator
    \/ LexAssign
    \/ LexPunct
    \/ LexUnrecognized
    \/ LexReturn

(***************************************************************************)
(* Parser                                                                  *)
(***************************************************************************)
\* AST nodes, as the dictionaries the parser builds.
Program(body) == [type |-> "Program", body |-> body]
PrintStatement(expr) == [type |-> "PrintStatement", expression |-> expr]
AssignmentStatement(name, value) ==
    [type |-> "AssignmentStatement", name |-> name, value |-> value]
Block(body) == [type |-> "Block", body |-> body]
BinaryExpression(op, left, right) ==
    [type |-> "BinaryExpression", operator |-> op, left |-> left, right |-> right]
Literal(value, dataType) == [type |-> "Literal", value |-> value, dataType |-> dataType]
Identifier(name) == [type |-> "Identifier", name |-> name]

\* The token Parser.advance leaves in current_token at position p.
TokenAt(toks, p) == IF p < Len(toks) THEN toks[p + 1] ELSE NoToken

\* One activation of a parser method.  pc is the token kind the method is
\* about to eat, "dispatch"/"start"/"loop" where it inspects the current
\* token, or "call" while a callee runs.
Frame(fn, pc) ==
    [fn |-> fn, pc |-> pc, statements |-> <<>>, node |-> Absent, op |-> Absent,
     name |-> Absent]

Top == stack[Len(stack)]
Pop(stk) == SubSeq(stk, 1, Len(stk) - 1)
SetTop(stk, f) == [stk EXCEPT ![Len(stk)] = f]

\* expression() calls term() calls factor() before any token is inspected.
CallFactor(stk) == Append(stk, Frame("factor", "start"))
CallTerm(stk) == CallFactor(Append(stk, Frame("term", "call")))
CallExpression(stk) == CallTerm(Append(stk, Frame("expression", "call")))

\* The caller c takes the value v its callee returned.
Resume(c, v) ==
    CASE c.fn \in {"program", "block"} ->
            [c EXCEPT !.statements = Append(@, v), !.pc = "loop"]
      [] c.fn = "print_statement" -> [c EXCEPT !.node = Some(v), !.pc = "RPAREN"]
      [] c.fn = "assignment_statement" -> [c EXCEPT !.node = Some(v), !.pc = "SEMICOLON"]
      [] c.fn = "factor" -> [c EXCEPT !.node = Some(v), !.pc = "RPAREN"]
      [] c.fn \in {"expression", "term"} ->
            IF c.op = Absent
            THEN [c EXCEPT !.node = Some(v), !.pc = "loop"]
            ELSE [c EXCEPT !.node = Some(BinaryExpression(c.op, c.node[1], v)),
                           !.op = Absent, !.pc = "loop"]

\* `return v` from the top activation of stk.  statement() returns what the
\* method it dispatched to returns, and term() with no operator pending
\* returns at once what factor() gave it only after its own loop test, so a
\* statement frame passes the value on and every other caller resumes.
RECURSIVE Return(_, _)
Return(stk, v) ==
    LET rest == Pop(stk)
    IN  IF rest[Len(rest)].fn = "statement"
        THEN Return(rest, v)
        ELSE SetTop(rest, Resume(rest[Len(rest)], v))

\* `raise e` out of parse: the activations unwind and nothing is returned.
ParseRaise(e) ==
    /\ parse_pc' = "raised"
    /\ parse_error' = e
    /\ stack' = <<>>
    /\ UNCHANGED <<tokens, parser_position, current_token, ast>>

\* The parser goes on with the activations stk, no token consumed.
Continue(stk) ==
    /\ stack' = stk
    /\ UNCHANGED <<tokens, parser_position, current_token, parse_pc, ast,
                   parse_error>>

\* A slip in advance: the position is not moved.
advance_stuck ==
    /\ parser_position' = parser_position
    /\ current_token' = TokenAt(tokens, parser_position)
\* Parser.advance
advance ==
    /\ parser_position' = parser_position + 1
    /\ current_token' = TokenAt(tokens, parser_position + 1)

\* A slip in eat: the token is consumed whatever its kind.
EatAnything(tok, token_type) == TRUE
\* The test of Parser.eat.
EatMatches(tok, token_type) == tok[1] = token_type

\* A slip in eat: the message names the two kinds the other way round.
eat_swapped(token_type, stk) ==
    IF EatMatches(current_token, token_type)
    THEN /\ advance
         /\ stack' = stk
         /\ UNCHANGED <<tokens, parse_pc, ast, parse_error>>
    ELSE ParseRaise(<<"SyntaxError", "Expected ", current_token[1], ", got ", token_type>>)

\* Parser.eat(token_type), the parser going on with the activations stk.
eat(token_type, stk) ==
    IF EatMatches(current_token, token_type)
    THEN /\ advance
         /\ stack' = stk
         /\ UNCHANGED <<tokens, parse_pc, ast, parse_error>>
    ELSE ParseRaise(<<"SyntaxError", "Expected ", token_type, ", got ", current_token[1]>>)

\* Every step of the parser subscripts current_token first: on None that is
\* a TypeError.
Reading(step) ==
    IF current_token = NoToken
    THEN ParseRaise(<<"TypeError", "'NoneType' object is not subscriptable">>)
    ELSE step

\* The method fn is the one running (the model follows a call stack only
\* down to MaxDepth activations).
Running(fn) ==
    parse_pc = "running" /\ stack # <<>> /\ Len(stack) <= MaxDepth /\ Top.fn = fn

program ==
    /\ Running("program")
    /\ Reading(
         IF current_token[1] # "EOF"
         THEN Continue(Append(stack, Frame("statement", "dispatch")))
         ELSE /\ parse_pc' = "returned"
              /\ ast' = Some(Program(Top.statements))
              /\ stack' = <<>>
              /\ UNCHANGED <<tokens, parser_position, current_token, parse_error>>)
    /\ UNCHANGED <<lexer_vars, gen_vars>>

PrintWord == <<"p", "r", "i", "n", "t">>

\* A slip in the first test of statement: the keyword's value is not looked at.
IsAnyKeyword(tok) == tok[1] = "KEYWORD"
\* The first test of statement.
IsPrintKeyword(tok) == tok[1] = "KEYWORD" /\ tok[2] = PrintWord

statement ==
    /\ Running("statement")
    /\ Reading(
         IF IsPrintKeyword(current_token)
         THEN Continue(Append(stack, Frame("print_statement", "KEYWORD")))
         ELSE IF current_token[1] = "IDENTIFIER"
         THEN Continue(Append(stack, Frame("assignment_statement", "IDENTIFIER")))
         ELSE IF current_token[1] = "LBRACE"
         THEN Continue(Append(stack, Frame("block", "LBRACE")))
         ELSE ParseRaise(<<"SyntaxError", "Unexpected token: ", current_token>>))
    /\ UNCHANGED <<lexer_vars, gen_vars>>

print_statement ==
    /\ Running("print_statement")
    /\ Reading(
         CASE Top.pc = "KEYWORD" ->
                eat("KEYWORD", SetTop(stack, [Top EXCEPT !.pc = "LPAREN"]))
           [] Top.pc = "LPAREN" ->
                eat("LPAREN", CallExpression(SetTop(stack, [Top EXCEPT !.pc = "call"])))
           [] Top.pc = "RPAREN" ->
                eat("RPAREN", SetTop(stack, [Top EXCEPT !.pc = "SEMICOLON"]))
           [] Top.pc = "SEMICOLON" ->
                eat("SEMICOLON", Return(stack, PrintStatement(Top.node[1]))))
    /\ UNCHANGED <<lexer_vars, gen_vars>>

assignment_statement ==
    /\ Running("assignment_statement")
    /\ Reading(
         CASE Top.pc = "IDENTIFIER" ->
                eat("IDENTIFIER",
                    SetTop(stack, [Top EXCEPT !.name = current_token[2], !.pc = "ASSIGN"]))
           [] Top.pc = "ASSIGN" ->
                eat("ASSIGN", CallExpression(SetTop(stack, [Top EXCEPT !.pc = "call"])))
           [] Top.pc = "SEMICOLON" ->
                eat("SEMICOLON", Return(stack, AssignmentStatement(Top.name, Top.node[1]))))
    /\ UNCHANGED <<lexer_vars, gen_vars>>

block ==
    /\ Running("block")
    /\ Reading(
         CASE Top.pc = "LBRACE" ->
                eat("LBRACE", SetTop(stack, [Top EXCEPT !.pc = "loop"]))
           [] Top.pc = "loop" ->
                IF current_token[1] # "RBRACE"
                THEN Continue(Append(stack, Frame("statement", "dispatch")))
                ELSE eat("RBRACE", Return(stack, Block(Top.statements))))
    /\ UNCHANGED <<lexer_vars, gen_vars>>

\* The operators of the loop of expression.
AddOps == {<<"+">>, <<"-">>}
\* A slip in the loop of term: it takes the additive operators too.
MulOpsAndAddOps == {<<"*">>, <<"/">>, <<"+">>, <<"-">>}
\* The operators of the loop of term.
MulOps == {<<"*">>, <<"/">>}

expression ==
    /\ Running("expression")
    /\ Reading(
         IF current_token[1] = "OPERATOR" /\ current_token[2] \in AddOps
         THEN eat("OPERATOR",
                  CallTerm(SetTop(stack, [Top EXCEPT !.op = current_token[2], !.pc = "call"])))
         ELSE Continue(Return(stack, Top.node[1])))
    /\ UNCHANGED <<lexer_vars, gen_vars>>

term ==
    /\ Running("term")
    /\ Reading(
         IF current_token[1] = "OPERATOR" /\ current_token[2] \in MulOps
         THEN eat("OPERATOR",
                  CallFactor(SetTop(stack, [Top EXCEPT !.op = current_token[2], !.pc = "call"])))
         ELSE Continue(Return(stack, Top.node[1])))
    /\ UNCHANGED <<lexer_vars, gen_vars>>

factor ==
    /\ Running("factor")
    /\ Reading(
         IF Top.pc = "RPAREN"
         THEN eat("RPAREN", Return(stack, Top.node[1]))
         ELSE LET token == current_token
              IN  CASE token[1] = "INTEGER" ->
                         eat("INTEGER", Return(stack, Literal(token[2], "int")))
                    [] token[1] = "FLOAT" ->
                         eat("FLOAT", Return(stack, Literal(token[2], "float")))
                    [] token[1] = "STRING" ->
                         eat("STRING", Return(stack, Literal(token[2], "string")))
                    [] token[1] = "IDENTIFIER" ->
                         eat("IDENTIFIER", Return(stack, Identifier(token[2])))
                    [] token[1] = "LPAREN" ->
                         eat("LPAREN",
                             CallExpression(SetTop(stack, [Top EXCEPT !.pc = "call"])))
                    [] OTHER ->
                         ParseRaise(<<"SyntaxError", "Unexpected token: ", token>>))
    /\ UNCHANGED <<lexer_vars, gen_vars>>

(***************************************************************************)
(* CodeGenerator                                                           *)
(***************************************************************************)
DigitChars == <<"0", "1", "2", "3", "4", "5", "6", "7", "8", "9">>

\* str(n) for an int n >= 0.
RECURSIVE StrInt(_)
StrInt(n) ==
    IF n < 10 THEN <<DigitChars[n + 1]>>
    ELSE StrInt(n \div 10) \o <<DigitChars[(n % 10) + 1]>>

\* str(x) for a float x: the shortest decimal text, which always shows a
\* fraction digit (magnitudes that print with an exponent are not modelled).
StrFloat(x) == StrInt(x.int) \o <<".">> \o (IF x.frac = <<>> THEN <<"0">> ELSE x.frac)

\* visit_Literal, visit_Identifier and visit_BinaryExpression: the text of
\* an expression.
RECURSIVE visit_expression(_)
visit_expression(node) ==
    CASE node.type = "Literal" ->
            IF node.dataType = "string"
            THEN <<"\"">> \o node.value \o <<"\"">>
            ELSE IF node.dataType = "float" THEN StrFloat(node.value)
            ELSE StrInt(node.value)
      [] node.type = "Identifier" -> node.name
      [] node.type = "BinaryExpression" ->
            <<"(">> \o visit_expression(node.left) \o <<" ">> \o node.operator
                    \o <<" ">> \o visit_expression(node.right) \o <<")">>

IndentUnit == <<" ", " ", " ", " ">>

\* CodeGenerator.indent at level n.
RECURSIVE indent(_)
indent(n) == IF n <= 0 THEN <<>> ELSE IndentUnit \o indent(n - 1)

Header ==
    <<"#", " ", "G", "e", "n", "e", "r", "a", "t", "e", "d", " ", "b", "y", " ",
      "S", "i", "m", "p", "l", "e", "C", "o", "m", "p", "i", "l", "e", "r">>

\* '\n'.join(lines)
RECURSIVE join(_)
join(lines) ==
    IF lines = <<>> THEN <<>>
    ELSE IF Len(lines) = 1 THEN lines[1]
    ELSE join(SubSeq(lines, 1, Len(lines) - 1)) \o <<"\n">> \o lines[Len(lines)]

\* The line visit_PrintStatement appends.
PrintLine(node, level) ==
    indent(level) \o <<"p", "r", "i", "n", "t", "(">> \o visit_expression(node.expression)
                  \o <<")">>

\* The line visit_AssignmentStatement appends.
AssignLine(node, level) ==
    indent(level) \o node.name \o <<" ", "=", " ">> \o visit_expression(node.value)

GenTop == gen_stack[Len(gen_stack)]
\* The statement the innermost `for statement in node['body']` loop is at.
GenCurrent == GenTop.body[GenTop.i]
GenAtStatement ==
    gen_pc = "running" /\ gen_stack # <<>> /\ GenTop.i <= Len(GenTop.body)
\* The innermost loop moves on to its next statement.
GenStep == [gen_stack EXCEPT ![Len(gen_stack)].i = @ + 1]

\* CodeGenerator(ast).generate() enters visit_Program.
visit_Program ==
    /\ parse_pc = "returned" /\ gen_pc = "idle"
    /\ gen_pc' = "running"
    /\ output' = <<Header, <<>>>>
    /\ gen_stack' = <<[body |-> ast[1].body, i |-> 1]>>
    /\ UNCHANGED <<indent_level, target_code, lexer_vars, parser_vars>>

visit_PrintStatement ==
    /\ GenAtStatement /\ GenCurrent.type = "PrintStatement"
    /\ output' = Append(output, PrintLine(GenCurrent, indent_level))
    /\ gen_stack' = GenStep
    /\ UNCHANGED <<indent_level, gen_pc, target_code, lexer_vars, parser_vars>>

visit_AssignmentStatement ==
    /\ GenAtStatement /\ GenCurrent.type = "AssignmentStatement"
    /\ output' = Append(output, AssignLine(GenCurrent, indent_level))
    /\ gen_stack' = GenStep
    /\ UNCHANGED <<indent_level, gen_pc, target_code, lexer_vars, parser_vars>>

\* visit_Block up to its loop.
visit_Block ==
    /\ GenAtStatement /\ GenCurrent.type = "Block"
    /\ indent_level' = indent_level + 1
    /\ gen_stack' = Append(GenStep, [body |-> GenCurrent.body, i |-> 1])
    /\ UNCHANGED <<output, gen_pc, target_code, lexer_vars, parser_vars>>

\* A slip in visit_Block: the level is not taken back after the loop.
leave_Block_forgetful ==
    /\ gen_pc = "running" /\ Len(gen_stack) > 1 /\ GenTop.i > Len(GenTop.body)
    /\ gen_stack' = SubSeq(gen_stack, 1, Len(gen_stack) - 1)
    /\ UNCHANGED <<indent_level, output, gen_pc, target_code, lexer_vars, parser_vars>>

\* visit_Block after its loop.
leave_Block ==
    /\ gen_pc = "running" /\ Len(gen_stack) > 1 /\ GenTop.i > Len(GenTop.body)
    /\ indent_level' = indent_level - 1
    /\ gen_stack' = SubSeq(gen_stack, 1, Len(gen_stack) - 1)
    /\ UNCHANGED <<output, gen_pc, target_code, lexer_vars, parser_vars>>

\* visit_Program is through: generate joins the lines and returns.
generate ==
    /\ gen_pc = "running" /\ Len(gen_stack) = 1 /\ GenTop.i > Len(GenTop.body)
    /\ target_code' = Some(join(output))
    /\ gen_pc' = "returned"
    /\ gen_stack' = <<>>
    /\ UNCHANGED <<output, indent_level, lexer_vars, parser_vars>>

(***************************************************************************)
(* The inputs of the model and its specifications.                         *)
(***************************************************************************)
\* All texts over the alphabet up to the bound.
RECURSIVE Texts(_)
Texts(n) ==
    IF n = 0 THEN {<<>>}
    ELSE LET shorter == Texts(n - 1)
         IN  shorter \cup {Append(t, c) : t \in {s \in shorter : Len(s) = n - 1}, c \in Alphabet}

LexerIdle ==
    /\ source_code = <<>> /\ lexer_position = 0 /\ current_char = None
    /\ lexer_tokens = <<>> /\ starts = <<>> /\ lex_pc = "idle"
    /\ lex_result = Absent /\ lex_error = Absent

ParserIdle ==
    /\ tokens = <<>> /\ parser_position = 0 /\ current_token = NoToken
    /\ stack = <<>> /\ parse_pc = "idle" /\ ast = Absent /\ parse_error = Absent

GenIdle ==
    /\ output = <<>> /\ indent_level = 0 /\ gen_stack = <<>>
    /\ gen_pc = "idle" /\ target_code = Absent

\* Lexer(source_code), then tokenize() is entered.
LexInit ==
    /\ source_code \in Texts(MaxSrcLen)
    /\ lexer_position = 0
    /\ current_char = CharAt(source_code, 0)
    /\ lexer_tokens = <<>>
    /\ starts = <<>>
    /\ lex_pc = "tokenize"
    /\ lex_result = Absent
    /\ lex_error = Absent
    /\ ParserIdle
    /\ GenIdle

LexSpec == LexInit /\ [][tokenize]_vars

\* Tokens as tokenize makes them.
KeywordTok(w) == <<"KEYWORD", w>>
IdentTok(n)   == <<"IDENTIFIER", n>>
IntTok(n)     == <<"INTEGER", n>>
FloatTok(i, f) == <<"FLOAT", [int |-> i, frac |-> f]>>
StringTok(s)  == <<"STRING", s>>
OpTok(o)      == <<"OPERATOR", o>>
AssignTok     == <<"ASSIGN", <<"=">>>>
SemiTok       == <<"SEMICOLON", <<";">>>>
LParenTok     == <<"LPAREN", <<"(">>>>
RParenTok     == <<"RPAREN", <<")">>>>
LBraceTok     == <<"LBRACE", <<"{">>>>
RBraceTok     == <<"RBRACE", <<"}">>>>

\* All sequences of at most n elements of S.
RECURSIVE SeqsUpTo(_, _)
SeqsUpTo(S, n) ==
    IF n = 0 THEN {<<>>}
    ELSE LET shorter == SeqsUpTo(S, n - 1)
         IN  shorter \cup {Append(t, x) : t \in {s \in shorter : Len(s) = n - 1}, x \in S}

RECURSIVE Flatten(_)
Flatten(ss) == IF ss = <<>> THEN <<>> ELSE ss[1] \o Flatten(Tail(ss))

\* Family 1: every short token list.
AnyTokens ==
    { KeywordTok(PrintWord), KeywordTok(<<"i", "f">>), IdentTok(<<"x">>), IntTok(7),
      FloatTok(1, <<"5">>), StringTok(<<"s">>), OpTok(<<"+">>), OpTok(<<"*">>),
      OpTok(<<"=", "=">>), AssignTok, SemiTok, LParenTok, RParenTok, LBraceTok,
      RBraceTok }
ShortLists == SeqsUpTo(AnyTokens, MaxTokens)

\* Family 2: an assignment of an expression without parentheses, its k-th
\* operand fixed and its operators free.
Operands ==
    << IdentTok(<<"a">>), IntTok(2), IdentTok(<<"b">>), FloatTok(0, <<"2", "5">>),
       StringTok(<<"s">>), IdentTok(<<"c">>), IntTok(10) >>
Operand(k) == Operands[((k - 1) % Len(Operands)) + 1]
ArithOps == {OpTok(<<"+">>), OpTok(<<"-">>), OpTok(<<"*">>), OpTok(<<"/">>)}
RECURSIVE Interleave(_, _)
Interleave(ops, k) ==
    IF ops = <<>> THEN <<Operand(k)>>
    ELSE <<Operand(k), ops[1]>> \o Interleave(Tail(ops), k + 1)
FlatExpressions == {Interleave(ops, 1) : ops \in SeqsUpTo(ArithOps, MaxOps)}
FlatAssignments == {<<IdentTok(<<"x">>), AssignTok>> \o e \o <<SemiTok>> : e \in FlatExpressions}

\* Family 3: statements and braces in any arrangement.
Items ==
    { <<LBraceTok>>, <<RBraceTok>>,
      <<IdentTok(<<"x">>), AssignTok, IntTok(7), SemiTok>>,
      <<KeywordTok(PrintWord), LParenTok, IdentTok(<<"x">>), OpTok(<<"+">>), IntTok(1),
        RParenTok, SemiTok>> }
Arrangements == {Flatten(ss) : ss \in SeqsUpTo(Items, MaxItems)}

\* Family 4: an assignment whose right-hand side is any short list of
\* parentheses, operands, operators and semicolons.
ParenTokens == {LParenTok, RParenTok, IdentTok(<<"y">>), OpTok(<<"-">>), OpTok(<<"*">>), SemiTok}
ParenAssignments ==
    {<<IdentTok(<<"x">>), AssignTok>> \o e : e \in SeqsUpTo(ParenTokens, MaxParenTokens)}

\* Family 5: statements with a string literal that runs over two lines, as
\* get_string takes it from the source.
TwoLineString == StringTok(<<"a", "\n", "b">>)
StringStatements ==
    { <<IdentTok(<<"y">>), AssignTok, TwoLineString, SemiTok>>,
      <<IdentTok(<<"x">>), AssignTok, IntTok(7), SemiTok,
        LBraceTok, KeywordTok(PrintWord), LParenTok, TwoLineString, RParenTok, SemiTok,
        RBraceTok>> }

\* The token lists given to the parser: each ends with the EOF token.
TokenLists ==
    {ts \o <<EOFToken>> :
        ts \in ShortLists \cup FlatAssignments \cup Arrangements \cup ParenAssignments
                \cup StringStatements}

\* Parser(tokens), then parse() is entered.
ParseInit ==
    /\ tokens \in TokenLists
    /\ parser_position = 0
    /\ current_token = tokens[1]
    /\ stack = <<Frame("program", "loop")>>
    /\ parse_pc = "running"
    /\ ast = Absent
    /\ parse_error = Absent
    /\ LexerIdle
    /\ GenIdle

ParseNext ==
    \/ program
    \/ statement
    \/ print_statement
    \/ assignment_statement
    \/ block
    \/ expression
    \/ term
    \/ factor
    \/ visit_Program
    \/ visit_PrintStatement
    \/ visit_AssignmentStatement
    \/ visit_Block
    \/ leave_Block
    \/ generate

ParseSpec == ParseInit /\ [][ParseNext]_vars

\* A call of compile runs to its end: no step that can be taken is put off
\* for ever.
ParseFairSpec == ParseSpec /\ WF_vars(ParseNext)

(***************************************************************************)
(* Properties of the lexer, checked under LexSpec.                         *)
(***************************************************************************)
Unrecognized(c) == <<"ValueError", "Unrecognized character: ", c>>

\* The characters C2 as written takes tokenize to recognize at the start of
\* a token: its punctuation list leaves out the division sign.
C2_ListedChars ==
    Space \cup Letters \cup {"_"} \cup Digits \cup {"\""}
          \cup {"+", "-", "*", ";", "(", ")", "{", "}"} \cup {"="}

\* C2 as written: at the start of a token, every character outside the
\* listed ones makes tokenize fail with "Unrecognized character: <c>" and
\* return nothing.
C2_AsWritten ==
    [][ (AtTokenStart /\ current_char \notin C2_ListedChars)
            => /\ lex_pc' = "raised"
               /\ lex_error' = Unrecognized(current_char)
               /\ lex_result' = Absent ]_vars

\* C2 (amended): at the start of a token, a character that is not
\* whitespace, a letter, an underscore, a digit, a double quote, one of
\* + - * / ; ( ) { } or = makes tokenize fail at once with "Unrecognized
\* character: <c>" naming that character; nothing is ever returned after the
\* failure, and every token begun before it began at a recognized character,
\* so the character named is the first such one the lexer reaches.
C2_RecognizedChars == C2_ListedChars \cup {"/"}
C2_FailsAtChar ==
    (AtTokenStart /\ current_char \notin C2_RecognizedChars)
        => /\ lex_pc' = "raised"
           /\ lex_error' = Unrecognized(current_char)
           /\ lex_error'[3] = source_code[lexer_position + 1]
           /\ lex_result' = Absent
C2_FailureState ==
    lex_pc = "raised"
        => /\ lex_result = Absent
           /\ \A k \in 1..Len(starts) : source_code[starts[k] + 1] \in C2_RecognizedChars
C2_UnrecognizedCharacter == [][C2_FailsAtChar]_vars /\ []C2_FailureState

\* C2's case: tokenize has failed on an unrecognized character after it had
\* produced a token.
C2_Witness ==
    /\ lex_pc = "raised"
    /\ lex_error = Unrecognized("@")
    /\ lexer_tokens # <<>>
    /\ lex_result = Absent

\* C3: the only failure of tokenize is the unrecognized-character error, and
\* a digit-started run of digits and dots yields exactly one token, FLOAT if
\* it holds a dot and INTEGER otherwise.
C3_OnlyUnrecognizedFails ==
    /\ lex_pc = "raised" => lex_error[2] = "Unrecognized character: "
    /\ \A k \in 1..Len(starts) :
          (starts[k] < Len(source_code) /\ isdigit(source_code[starts[k] + 1])) =>
             LET q   == ScanEnd(source_code, starts[k], Digits \cup {"."})
                 run == SubSeq(source_code, starts[k] + 1, q)
             IN  /\ lexer_tokens[k][1] = (IF Dots(run) # {} THEN "FLOAT" ELSE "INTEGER")
                 /\ k < Len(starts) => starts[k + 1] >= q

\* C6: a returned token list ends with the one EOF token it holds, which
\* carries no payload, and the tokens before it lie in the source from left
\* to right: each begins where the lexer stood when it was appended, after
\* the text of the token before it, and carries the text found there.
TokenText(tok) ==
    IF tok[1] \in {"INTEGER", "FLOAT", "EOF"} THEN <<>> ELSE tok[2]
TextOffset(tok) == IF tok[1] = "STRING" THEN 1 ELSE 0
C6_Order(r) ==
    \A k \in 1..(Len(r) - 1) :
        LET from == starts[k] + TextOffset(r[k])
            text == TokenText(r[k])
        IN  /\ starts[k] < Len(source_code)
            /\ SubSeq(source_code, from + 1, from + Len(text)) = text
            /\ r[k][1] = "STRING" => source_code[starts[k] + 1] = "\""
            /\ r[k][1] \in {"INTEGER", "FLOAT"} => isdigit(source_code[starts[k] + 1])
            /\ starts[k] + TextOffset(r[k]) + Len(text) <= starts[k + 1]
            /\ starts[k] < starts[k + 1]
C6_OneEOFLast ==
    lex_result # Absent =>
        LET r == lex_result[1]
        IN  /\ lex_pc = "returned"
            /\ Len(r) >= 1
            /\ r[Len(r)] = <<"EOF", None>>
            /\ \A k \in 1..(Len(r) - 1) : r[k][1] # "EOF"
            /\ Len(starts) = Len(r)
            /\ starts[Len(r)] = Len(source_code)
            /\ C6_Order(r)

\* C6's case: tokenize has returned for a source that ends inside a string
\* literal which follows another token.
C6_Witness ==
    /\ lex_result # Absent
    /\ Len(lex_result[1]) = 3
    /\ lex_result[1][2][1] = "STRING"
    /\ lex_result[1][2][2] # <<>>
    /\ source_code[Len(source_code)] # "\""

(***************************************************************************)
(* Properties of the parser, checked under ParseSpec.                      *)
(***************************************************************************)
Expected(want, got) == <<"SyntaxError", "Expected ", want, ", got ", got>>
Unexpected(tok) == <<"SyntaxError", "Unexpected token: ", tok>>
TokenKinds ==
    {"KEYWORD", "IDENTIFIER", "INTEGER", "FLOAT", "STRING", "OPERATOR", "ASSIGN",
     "SEMICOLON", "LPAREN", "RPAREN", "LBRACE", "RBRACE", "EOF"}
Parsing == parse_pc = "running" /\ stack # <<>>

\* The parser stands before an eat of the kind its activation names, and the
\* current token is of another kind.
C4_Mismatch ==
    Parsing /\ Top.pc \in TokenKinds /\ current_token[1] # Top.pc
C4_Fails(want) ==
    /\ parse_pc' = "raised"
    /\ parse_error' = Expected(want, current_token[1])
    /\ ast' = Absent
\* A print or assignment statement whose expression has just been parsed.
C4_AfterExpression ==
    /\ Parsing
    /\ \/ Top.fn = "print_statement" /\ Top.pc = "RPAREN"
       \/ Top.fn = "assignment_statement" /\ Top.pc = "SEMICOLON"

C4_AfterStatementBody ==
    /\ Parsing
    /\ Top.fn \in {"print_statement", "assignment_statement"}
    /\ Top.pc = "SEMICOLON"
C5_StatementExpected == Parsing /\ Top.fn = "statement"
C5_Selects(fn) ==
    /\ parse_pc' = "running"
    /\ stack'[Len(stack')].fn = fn
    /\ parser_position' = parser_position
C5_Dispatch ==
    [][ /\ C5_StatementExpected =>
             IF current_token = <<"KEYWORD", PrintWord>> THEN C5_Selects("print_statement")
             ELSE IF current_token[1] = "IDENTIFIER" THEN C5_Selects("assignment_statement")
             ELSE IF current_token[1] = "LBRACE" THEN C5_Selects("block")
             ELSE /\ parse_pc' = "raised"
                  /\ parse_error' = Unexpected(current_token)
                  /\ ast' = Absent
        /\ (Parsing /\ Top.fn = "program" /\ current_token[1] # "EOF")
              => C5_Selects("statement")
        /\ (Parsing /\ Top.fn = "block" /\ Top.pc = "loop" /\ current_token[1] # "RBRACE")
              => C5_Selects("statement") ]_vars
    /\ [](parse_pc = "raised" => ast = Absent /\ gen_pc = "idle")

\* C5's case: the input ended inside a block that holds a statement.
C5_Witness ==
    /\ parse_pc = "raised"
    /\ parse_error = Unexpected(EOFToken)
    /\ tokens[1] = LBraceTok
    /\ Len(tokens) > 2

\* C9: while and after parse runs, the position is an index of the token
\* list, the current token is the token there and never None, the EOF token
\* is never passed, and parse fails with SyntaxError only.
C9_PositionValid ==
    parse_pc # "idle" =>
        /\ parser_position \in 0..(Len(tokens) - 1)
        /\ current_token # NoToken
        /\ current_token = tokens[parser_position + 1]
        /\ parse_error # Absent => parse_error[1] = "SyntaxError"

\* C9's case: parse has failed with the EOF token as the current one, after
\* consuming tokens.
C9_Witness ==
    /\ parse_pc = "raised"
    /\ parser_position = Len(tokens) - 1
    /\ parser_position >= 3
    /\ current_token = EOFToken

\* C10: parse terminates: every run comes to the state in which parse has
\* returned a Program or to the state in which it has raised a SyntaxError.
C10_Done == parse_pc \in {"returned", "raised"}
C10_Terminates ==
    /\ <>C10_Done
    /\ [](parse_pc = "returned" => ast # Absent /\ ast[1].type = "Program")
    /\ [](parse_pc = "raised" => parse_error[1] = "SyntaxError")

\* C10's case: parse has failed on a right-hand side that opens two
\* parentheses and closes none.
C10_Witness ==
    /\ parse_pc = "raised"
    /\ Len(tokens) >= 6
    /\ tokens[3] = LParenTok /\ tokens[4] = LParenTok
    /\ \A k \in 1..Len(tokens) : tokens[k] # RParenTok

(***************************************************************************)
(* Properties of parsing then generating, checked under ParseSpec.         *)
(***************************************************************************)
\* The places of the tokens of a kind, in order.
RECURSIVE PlacesFrom(_, _, _)
PlacesFrom(toks, kind, k) ==
    IF k > Len(toks) THEN <<>>
    ELSE (IF toks[k][1] = kind THEN <<k>> ELSE <<>>) \o PlacesFrom(toks, kind, k + 1)
Places(kind) == PlacesFrom(tokens, kind, 1)
\* Each print or assignment statement ends with its own SEMICOLON.
StatementEnds == Places("SEMICOLON")
\* The number of blocks open at token k.
BlockDepth(k) ==
    Cardinality({j \in 1..k : tokens[j][1] = "LBRACE"})
        - Cardinality({j \in 1..k : tokens[j][1] = "RBRACE"})
LeadingSpaces(line) == ScanEnd(line, 0, {" "})
Count(text, c) == Cardinality({k \in 1..Len(text) : text[k] = c})
Max(S) == CHOOSE m \in S : \A n \in S : n <= m

\* The text of an operand token.
OperandText(tok) ==
    CASE tok[1] = "IDENTIFIER" -> tok[2]
      [] tok[1] = "INTEGER" -> StrInt(tok[2])
      [] tok[1] = "FLOAT" -> StrFloat(tok[2])
      [] tok[1] = "STRING" -> <<"\"">> \o tok[2] \o <<"\"">>

\* The fully parenthesized text of a flat expression e (operands and
\* operators in turn): split at its last + or -, or with none at its last *
\* or /, and group both sides the same way.
OperatorPlaces(e, ops) == {k \in 1..Len(e) : e[k][1] = "OPERATOR" /\ e[k][2] \in ops}
RECURSIVE Grouped(_)
Grouped(e) ==
    IF Len(e) = 1 THEN OperandText(e[1])
    ELSE LET low == OperatorPlaces(e, {<<"+">>, <<"-">>})
             k   == IF low # {} THEN Max(low)
                    ELSE Max(OperatorPlaces(e, {<<"*">>, <<"/">>}))
         IN  <<"(">> \o Grouped(SubSeq(e, 1, k - 1)) \o <<" ">> \o e[k][2] \o <<" ">>
                     \o Grouped(SubSeq(e, k + 1, Len(e))) \o <<")">>

\* The program is one assignment of an expression without parentheses.
FlatAssignment ==
    /\ Len(StatementEnds) = 1
    /\ tokens[1][1] = "IDENTIFIER"
    /\ \A k \in 1..Len(tokens) :
          tokens[k][1] \notin {"LPAREN", "RPAREN", "LBRACE", "RBRACE", "KEYWORD"}
FlatExpression == SubSeq(tokens, 3, Len(tokens) - 2)

\* C1: for an expression over + - * / without parentheses, the text emitted
\* is the fully parenthesized form of the left-associative grouping in
\* which * and / bind tighter than + and -, with one pair of parentheses
\* for each operator.
C1_Grouping ==
    (gen_pc = "returned" /\ FlatAssignment) =>
        LET ops == Len(Places("OPERATOR"))
        IN  /\ output[3] = tokens[1][2] \o <<" ", "=", " ">> \o Grouped(FlatExpression)
            /\ Count(output[3], "(") = ops
            /\ Count(output[3], ")") = ops

\* C1's case: a - 2 - b * 0.25 has been compiled to ((a - 2) - (b * 0.25)).
C1_Witness ==
    /\ gen_pc = "returned"
    /\ FlatAssignment
    /\ Len(Places("OPERATOR")) = 3
    /\ output[3] = <<"x", " ", "=", " ", "(", "(", "a", " ", "-", " ", "2", ")", " ", "-",
                     " ", "(", "b", " ", "*", " ", "0", ".", "2", "5", ")", ")">>

\* C7: every statement line begins with exactly four spaces for each block
\* open around its statement, blocks add no line and no brace, and the
\* indentation level is never negative, counts the blocks being visited and
\* is 0 when generation ends.
C7_Indentation ==
    gen_pc # "idle" =>
        /\ indent_level >= 0
        /\ gen_pc = "running" => indent_level = Len(gen_stack) - 1
        /\ gen_pc = "returned" => indent_level = 0 /\ Len(output) = 2 + Len(StatementEnds)
        /\ Len(output) <= 2 + Len(StatementEnds)
        /\ \A k \in 3..Len(output) :
              /\ LeadingSpaces(output[k]) = 4 * BlockDepth(StatementEnds[k - 2])
              /\ Count(output[k], "{") = 0 /\ Count(output[k], "}") = 0

\* C7's case: a statement inside a block and one after it have been emitted,
\* the first indented by four spaces and the second not at all.
C7_Witness ==
    /\ gen_pc = "returned"
    /\ Len(output) = 4
    /\ LeadingSpaces(output[3]) = 4
    /\ LeadingSpaces(output[4]) = 0
    /\ Len(Places("LBRACE")) = 1

\* The lines of a text: what lies between its newline characters.
RECURSIVE SplitLines(_)
SplitLines(text) ==
    LET nl == {k \in 1..Len(text) : text[k] = "\n"}
    IN  IF nl = {} THEN <<text>>
        ELSE SplitLines(SubSeq(text, 1, Max(nl) - 1)) \o <<SubSeq(text, Max(nl) + 1, Len(text))>>
\* The first token of the n-th statement, and how its line begins.
StatementStart(n) ==
    LET from == IF n = 1 THEN 1 ELSE StatementEnds[n - 1] + 1
    IN  CHOOSE k \in from..StatementEnds[n] :
            /\ tokens[k][1] \notin {"LBRACE", "RBRACE"}
            /\ \A j \in from..(k - 1) : tokens[j][1] \in {"LBRACE", "RBRACE"}
LineStart(n) ==
    LET tok == tokens[StatementStart(n)]
    IN  IF tok[1] = "KEYWORD" THEN <<"p", "r", "i", "n", "t", "(">>
        ELSE tok[2] \o <<" ", "=", " ">>
StartsWith(line, prefix) ==
    Len(line) >= Len(prefix) /\ SubSeq(line, 1, Len(prefix)) = prefix
Unindented(line) == SubSeq(line, LeadingSpaces(line) + 1, Len(line))

\* C8: the text of a compiled program is the header line, a blank line and
\* then one line for each print or assignment statement, in source order:
\* 2 + (number of statements) lines.
C8_OneLinePerStatement ==
    gen_pc = "returned" =>
        LET lines == SplitLines(target_code[1])
        IN  /\ Len(lines) = 2 + Len(StatementEnds)
            /\ lines[1] = Header
            /\ lines[2] = <<>>
            /\ \A n \in 1..Len(StatementEnds) :
                  StartsWith(Unindented(lines[n + 2]), LineStart(n))

=============================================================================
